---- MODULE Spec2Model ----
(***************************************************************************)
(* Model of minesweeper.py: the Minesweeper board (the oracle), Sentence   *)
(* and MinesweeperAI (the knowledge base and its move selection).          *)
(*                                                                         *)
(* A cell is a tuple <<row, col>>.  A Sentence is a record                 *)
(* [cells, count, mc].  MinesweeperAI.knowledge is a Python list, so it is *)
(* a sequence here: remove_duplicates keeps the FIRST sentence of every    *)
(* cell set, which makes the order observable.                             *)
(*                                                                         *)
(* A call of add_knowledge is modelled by its position: add_knowledge runs  *)
(* lines 168-206 (up to the first test of `while not finished`), and each  *)
(* LoopPass runs one body of the while loop (lines 208-239).  While        *)
(* pc = "resolving" nothing else can run, so the call returns exactly when *)
(* pc goes back to "idle".                                                 *)
(*                                                                         *)
(* Spec      a driver passing any in-bounds cell and any count, and asking *)
(*           for moves                                                     *)
(* UsageSpec a driver passing cells outside the board as well              *)
(* GameSpec  the Minesweeper game revealing non-mine cells with their true *)
(*           counts, on every small board                                  *)
(* GridSpec  the same game on the one GridHeight x GridWidth board         *)
(* ApiSpec   a driver calling every public method of MinesweeperAI:        *)
(*           add_knowledge, mark_safe, mark_mine and the two move queries, *)
(*           and known_safes and known_mines of the sentences in knowledge *)
(* SentenceSpec any one Sentence, asked for its known safes and mines      *)
(***************************************************************************)
EXTENDS Integers, Sequences, FiniteSets, TLC

\* ---- bounds of the model ----
\* boards of the driver and of the game: 1..MaxHeight by 1..MaxWidth
MaxHeight == 2
MaxWidth == 3
\* calls of add_knowledge by the driver, by the game
MaxCalls == 2
MaxObs == 2
MaxCount == 1
MaxMines == 3
\* the one larger board, played by the game
GridHeight == 3
GridWidth == 3
GridObs == 3
GridMines == 4
\* boards and calls of the driver that also marks cells itself
ApiHeight == 2
ApiWidth == 2
ApiCalls == 2
\* the board whose sets of cells make the sentences queried on their own
SentHeight == 2
SentWidth == 2

\* the counts a driver may pass: a negative one, and up to MaxCount
Counts == (0 - 1)..MaxCount

None == <<>>

VARIABLES height, width, game_mines, moves_made, mines, safes, knowledge,
          new_knowledge, pc, last, arg, result, nobs

vars == <<height, width, game_mines, moves_made, mines, safes, knowledge,
          new_knowledge, pc, last, arg, result, nobs>>

\* ---- Minesweeper (the board oracle) ----

\* Minesweeper.__init__: the cells (i, j) of the board
BoardCells(h, w) == {<<i, j>> : i \in 0..(h - 1), j \in 0..(w - 1)}

\* the double loop shared by nearby_mines and add_knowledge
Neighbours(cell, h, w) ==
  {c \in {<<i, j>> : i \in (cell[1] - 1)..(cell[1] + 1),
                     j \in (cell[2] - 1)..(cell[2] + 1)} :
     /\ c # cell
     /\ 0 <= c[1] /\ c[1] < h
     /\ 0 <= c[2] /\ c[2] < w}

\* Minesweeper.nearby_mines
nearby_mines(cell) ==
  Cardinality({c \in Neighbours(cell, height, width) : c \in game_mines})

\* Minesweeper.is_mine
is_mine(cell) == cell \in game_mines

\* ---- Sentence ----

Sentence(cells, count, mc) == [cells |-> cells, count |-> count, mc |-> mc]

\* Sentence.__eq__
SentenceEq(s, t) == s.cells = t.cells /\ s.count = t.count

\* known_mines that also answers when the count exceeds the cells
known_mines_AtLeast(s) == IF Cardinality(s.cells) <= s.count THEN s.cells ELSE {}

\* Sentence.known_mines
known_mines(s) == IF Cardinality(s.cells) = s.count THEN s.cells ELSE {}

\* known_safes with the test of known_mines
known_safes_AsMines(s) == IF Cardinality(s.cells) = s.count THEN s.cells ELSE {}

\* Sentence.known_safes
known_safes(s) == IF s.count = 0 THEN s.cells ELSE {}

\* mark_mine without `self.count -= 1`
SentenceMarkMine_NoDecrement(s, cell) ==
  IF cell \in s.cells THEN [s EXCEPT !.cells = s.cells \ {cell}] ELSE s

\* Sentence.mark_mine
SentenceMarkMine(s, cell) ==
  IF cell \in s.cells
  THEN [s EXCEPT !.cells = s.cells \ {cell}, !.count = s.count - 1]
  ELSE s

\* mark_safe that forgets `self.cells.remove(cell)`
SentenceMarkSafe_Noop(s, cell) == s

\* Sentence.mark_safe
SentenceMarkSafe(s, cell) ==
  IF cell \in s.cells THEN [s EXCEPT !.cells = s.cells \ {cell}] ELSE s

\* ---- MinesweeperAI ----

\* a Python loop `for x in S: s.mark_...(x)` over a set, in any order
RECURSIVE MarkAllSafe(_, _)
MarkAllSafe(s, S) ==
  IF S = {} THEN s
  ELSE LET x == CHOOSE y \in S : TRUE
       IN MarkAllSafe(SentenceMarkSafe(s, x), S \ {x})

RECURSIVE MarkAllMine(_, _)
MarkAllMine(s, S) ==
  IF S = {} THEN s
  ELSE LET x == CHOOSE y \in S : TRUE
       IN MarkAllMine(SentenceMarkMine(s, x), S \ {x})

\* remove_duplicates whose filter keeps every sentence
remove_duplicates_KeepAll(kn) == kn

\* add_knowledge.remove_duplicates: keep the first sentence of each cell set
remove_duplicates(kn) ==
  LET keep == {i \in 1..Len(kn) : \A j \in 1..(i - 1) : kn[j].cells # kn[i].cells}
      RECURSIVE build(_)
      build(i) == IF i > Len(kn) THEN <<>>
                  ELSE IF i \in keep THEN <<kn[i]>> \o build(i + 1)
                  ELSE build(i + 1)
  IN build(1)

\* add_knowledge.update_knowledge: one pass, returns the new
\* (knowledge, safes, mines)
update_knowledge(kn, sf, mn) ==
  LET sf1 == sf \cup UNION {known_safes(kn[i]) : i \in 1..Len(kn)}
      mn1 == mn \cup UNION {known_mines(kn[i]) : i \in 1..Len(kn)}
      marked == [i \in 1..Len(kn) |-> MarkAllMine(MarkAllSafe(kn[i], sf1), mn1)]
      nonempty == SelectSeq(marked, LAMBDA s : s.cells # {})
  IN [knowledge |-> remove_duplicates(nonempty), safes |-> sf1, mines |-> mn1]

\* lines 211-222: the sentences appended to new_knowledge in one pass,
\* in the order of the two nested loops
\* line 218 without `all(new_cells != s.cells for s in self.knowledge)`
DerivesNew_NoExistingCheck(kn, i, j) ==
  /\ ~SentenceEq(kn[i], kn[j])
  /\ kn[i].cells \subseteq kn[j].cells
  /\ kn[j].cells \ kn[i].cells # {}

DerivesNew(kn, i, j) ==
  /\ ~SentenceEq(kn[i], kn[j])
  /\ kn[i].cells \subseteq kn[j].cells
  /\ kn[j].cells \ kn[i].cells # {}
  /\ \A k \in 1..Len(kn) : kn[j].cells \ kn[i].cells # kn[k].cells

\* line 215 with the subtraction the wrong way round
Derived_Swapped(kn, i, j) ==
  Sentence(kn[j].cells \ kn[i].cells, kn[i].count - kn[j].count, kn[i].mc)

\* lines 214, 215, 221: the sentence derived from the pair
Derived(kn, i, j) ==
  Sentence(kn[j].cells \ kn[i].cells, kn[j].count - kn[i].count, kn[i].mc)

SubsetPass(kn) ==
  LET n == Len(kn)
      RECURSIVE scan(_)
      scan(k) ==
        IF k > n * n THEN <<>>
        ELSE LET i == ((k - 1) \div n) + 1
                 j == ((k - 1) % n) + 1
             IN IF DerivesNew(kn, i, j)
                THEN <<Derived(kn, i, j)>> \o scan(k + 1)
                ELSE scan(k + 1)
  IN scan(1)

\* line 231: `common_cells == 3` compares a set with an int, which is
\* never equal in Python
PySetEqInt(S, n) == FALSE

\* lines 228-236: the intersection rule; were it to fire, `self.mines.add`
\* of a set would raise TypeError
IntersectionRuleFires(kn) ==
  \E i, j \in 1..Len(kn) :
    /\ ~SentenceEq(kn[i], kn[j])
    /\ PySetEqInt(kn[i].cells \cap kn[j].cells, 3)
    /\ Cardinality(kn[i].cells) - kn[i].count = 1
    /\ kn[j].count = 2

\* MinesweeperAI.__init__(height, width)
InitAI(h, w) ==
  /\ height = h
  /\ width = w
  /\ moves_made = {}
  /\ mines = {}
  /\ safes = {}
  /\ knowledge = <<>>
  /\ new_knowledge = <<>>
  /\ pc = "idle"
  /\ last = "init"
  /\ arg = None
  /\ result = None
  /\ nobs = 0

\* lines 20-25: the placements of n mines on the board
Placements(h, w, n) == {M \in SUBSET BoardCells(h, w) : Cardinality(M) = n}

\* mark_mine whose sentences decrement without testing `cell in self.cells`
AIMarkMine_Unguarded(kn, mn, cell) ==
  [knowledge |-> [i \in 1..Len(kn) |->
                    [kn[i] EXCEPT !.cells = @ \ {cell}, !.count = @ - 1]],
   mines |-> mn \cup {cell}]

\* MinesweeperAI.mark_mine: the mines set and the sentences it leaves
AIMarkMine(kn, mn, cell) ==
  [knowledge |-> [i \in 1..Len(kn) |-> SentenceMarkMine(kn[i], cell)],
   mines |-> mn \cup {cell}]

\* mark_safe that assigns the set instead of adding to it
AIMarkSafe_Replace(kn, sf, cell) ==
  [knowledge |-> [i \in 1..Len(kn) |-> SentenceMarkSafe(kn[i], cell)],
   safes |-> {cell}]

\* MinesweeperAI.mark_safe: the safes set and the sentences it leaves
AIMarkSafe(kn, sf, cell) ==
  [knowledge |-> [i \in 1..Len(kn) |-> SentenceMarkSafe(kn[i], cell)],
   safes |-> sf \cup {cell}]

\* an AI on any board, driven without a game
Init ==
  \E h \in 1..MaxHeight, w \in 1..MaxWidth :
    InitAI(h, w) /\ game_mines = {}

\* Minesweeper(height, width, mines) and its MinesweeperAI(height, width)
GameInit ==
  \E h \in 1..MaxHeight, w \in 1..MaxWidth, n \in 0..MaxMines :
    InitAI(h, w) /\ game_mines \in Placements(h, w, n)

\* an AI on any board of the driver that marks cells itself
ApiInit ==
  \E h \in 1..ApiHeight, w \in 1..ApiWidth :
    InitAI(h, w) /\ game_mines = {}

\* Sentence(cells, count, mc) for any cells of the SentHeight x SentWidth
\* board and any count from -1 to one more than the board has cells
SentenceInit ==
  \E cells \in SUBSET BoardCells(SentHeight, SentWidth),
     count \in (0 - 1)..(SentHeight * SentWidth + 1),
     mc \in BoardCells(SentHeight, SentWidth) :
    /\ height = SentHeight
    /\ width = SentWidth
    /\ game_mines = {}
    /\ moves_made = {}
    /\ mines = {}
    /\ safes = {}
    /\ knowledge = <<Sentence(cells, count, mc)>>
    /\ new_knowledge = <<>>
    /\ pc = "idle"
    /\ last = "init"
    /\ arg = None
    /\ result = None
    /\ nobs = 0

\* the same on the GridHeight x GridWidth board
GridInit ==
  \E n \in 0..GridMines :
    InitAI(GridHeight, GridWidth) /\ game_mines \in Placements(GridHeight, GridWidth, n)

\* add_knowledge, lines 168-206
add_knowledge(cell, count) ==
  /\ pc = "idle"
  /\ LET kn0 == [i \in 1..Len(knowledge) |-> SentenceMarkSafe(knowledge[i], cell)]
         kn1 == Append(kn0, Sentence(Neighbours(cell, height, width), count, cell))
         u == update_knowledge(kn1, safes \cup {cell}, mines)
     IN /\ moves_made' = moves_made \cup {cell}
        /\ knowledge' = u.knowledge
        /\ safes' = u.safes
        /\ mines' = u.mines
  /\ new_knowledge' = <<>>
  /\ pc' = "resolving"
  /\ last' = "add_knowledge"
  /\ arg' = <<cell, count>>
  /\ result' = None
  /\ nobs' = nobs + 1
  /\ UNCHANGED <<height, width, game_mines>>

\* one body of `while not finished`, lines 208-239
LoopPass ==
  /\ pc = "resolving"
  /\ LET nk == SubsetPass(knowledge)
         u == update_knowledge(knowledge \o nk, safes, mines)
     IN /\ new_knowledge' = nk
        /\ knowledge' = u.knowledge
        /\ safes' = u.safes
        /\ mines' = u.mines
        /\ pc' = IF IntersectionRuleFires(knowledge) THEN "TypeError"
                 ELSE IF nk = <<>> THEN "idle" ELSE "resolving"
  /\ UNCHANGED <<height, width, game_mines, moves_made, last, arg, result, nobs>>

\* line 259 / 278: `if choice:` on a tuple is true iff the tuple is non-empty
\* mark_mine that records the mine and leaves the sentences alone
mark_mine_NoCascade(cell) ==
  /\ pc = "idle"
  /\ mines' = mines \cup {cell}
  /\ last' = "mark_mine"
  /\ arg' = <<cell>>
  /\ result' = None
  /\ nobs' = nobs + 1
  /\ UNCHANGED <<height, width, game_mines, moves_made, safes, knowledge,
                 new_knowledge, pc>>

\* MinesweeperAI.mark_mine, called by the driver between observations
mark_mine(cell) ==
  /\ pc = "idle"
  /\ LET m == AIMarkMine(knowledge, mines, cell)
     IN /\ knowledge' = m.knowledge
        /\ mines' = m.mines
  /\ last' = "mark_mine"
  /\ arg' = <<cell>>
  /\ result' = None
  /\ nobs' = nobs + 1
  /\ UNCHANGED <<height, width, game_mines, moves_made, safes,
                 new_knowledge, pc>>

\* MinesweeperAI.mark_safe, called by the driver between observations
mark_safe(cell) ==
  /\ pc = "idle"
  /\ LET m == AIMarkSafe(knowledge, safes, cell)
     IN /\ knowledge' = m.knowledge
        /\ safes' = m.safes
  /\ last' = "mark_safe"
  /\ arg' = <<cell>>
  /\ result' = None
  /\ nobs' = nobs + 1
  /\ UNCHANGED <<height, width, game_mines, moves_made, mines,
                 new_knowledge, pc>>

\* a call of Sentence.known_safes on sentence i
SentenceKnownSafes(i) ==
  /\ pc = "idle"
  /\ result' = known_safes(knowledge[i])
  /\ last' = "known_safes"
  /\ arg' = <<i>>
  /\ UNCHANGED <<height, width, game_mines, moves_made, mines, safes,
                 knowledge, new_knowledge, pc, nobs>>

\* a call of Sentence.known_mines on sentence i
SentenceKnownMines(i) ==
  /\ pc = "idle"
  /\ result' = known_mines(knowledge[i])
  /\ last' = "known_mines"
  /\ arg' = <<i>>
  /\ UNCHANGED <<height, width, game_mines, moves_made, mines, safes,
                 knowledge, new_knowledge, pc, nobs>>

PyTruthy(choice) == Len(choice) > 0

\* line 256 without `- self.moves_made`
SafeMoves_All(sf, mm) == sf

\* line 256: moves = self.safes - self.moves_made
SafeMoves(sf, mm) == sf \ mm

\* MinesweeperAI.make_safe_move: the values the call can return
SafeMoveReturns ==
  IF Cardinality(safes) > 0
  THEN LET moves == SafeMoves(safes, moves_made)
       IN IF Cardinality(moves) > 0
          THEN {IF PyTruthy(choice) THEN choice ELSE None : choice \in moves}
          ELSE {None}
  ELSE {None}

\* lines 271-274: the set `board` built by make_random_move
RandomBoard(h, w) == {<<i, j>> : i \in 0..(w - 1), j \in 0..(h - 1)}

\* MinesweeperAI.make_random_move: the values the call can return
RandomMoveReturns ==
  LET not_mine == (RandomBoard(height, width) \ mines) \ moves_made
  IN IF Cardinality(not_mine) > 0
     THEN {IF PyTruthy(choice) THEN choice ELSE None : choice \in not_mine}
     ELSE {None}

\* make_safe_move that records the move it hands out as played
make_safe_move_Recording ==
  /\ pc = "idle"
  /\ result' \in SafeMoveReturns
  /\ moves_made' = IF result' = None THEN moves_made
                                     ELSE moves_made \cup {result'}
  /\ last' = "make_safe_move"
  /\ arg' = None
  /\ UNCHANGED <<height, width, game_mines, mines, safes,
                 knowledge, new_knowledge, pc, nobs>>

\* MinesweeperAI.make_safe_move
make_safe_move ==
  /\ pc = "idle"
  /\ result' \in SafeMoveReturns
  /\ last' = "make_safe_move"
  /\ arg' = None
  /\ UNCHANGED <<height, width, game_mines, moves_made, mines, safes,
                 knowledge, new_knowledge, pc, nobs>>

\* MinesweeperAI.make_random_move
make_random_move ==
  /\ pc = "idle"
  /\ result' \in RandomMoveReturns
  /\ last' = "make_random_move"
  /\ arg' = None
  /\ UNCHANGED <<height, width, game_mines, moves_made, mines, safes,
                 knowledge, new_knowledge, pc, nobs>>

\* the driver passes any in-bounds cell and any count
Observe ==
  /\ nobs < MaxCalls
  /\ \E cell \in BoardCells(height, width), count \in Counts :
       add_knowledge(cell, count)

\* the driver passes any cell, also one just outside the board
ObserveAnywhere ==
  \E cell \in {<<i, j>> : i \in (0 - 1)..height, j \in (0 - 1)..width},
     count \in Counts :
    /\ nobs < MaxCalls
    /\ add_knowledge(cell, count)

\* the game passes a revealed non-mine cell and its true count
Reveal ==
  \E cell \in BoardCells(height, width) :
    /\ ~is_mine(cell)
    /\ add_knowledge(cell, nearby_mines(cell))

ObserveGame == nobs < MaxObs /\ Reveal

\* the driver of ApiSpec: at most ApiCalls calls that change the AI
ObserveApi ==
  /\ nobs < ApiCalls
  /\ \E cell \in BoardCells(height, width), count \in Counts :
       add_knowledge(cell, count)

MarkMineApi ==
  /\ nobs < ApiCalls
  /\ \E cell \in BoardCells(height, width) : mark_mine(cell)

MarkSafeApi ==
  /\ nobs < ApiCalls
  /\ \E cell \in BoardCells(height, width) : mark_safe(cell)

ObserveGrid == nobs < GridObs /\ Reveal

Next == Observe \/ LoopPass \/ make_safe_move \/ make_random_move

Spec == Init /\ [][Next]_vars

AskSafes == \E i \in 1..Len(knowledge) : SentenceKnownSafes(i)

AskMines == \E i \in 1..Len(knowledge) : SentenceKnownMines(i)

UsageNext == ObserveAnywhere \/ LoopPass

UsageSpec == Init /\ [][UsageNext]_vars

GameNext == ObserveGame \/ LoopPass \/ make_safe_move

GameSpec == GameInit /\ [][GameNext]_vars

ApiNext ==
  \/ ObserveApi
  \/ LoopPass
  \/ MarkMineApi
  \/ MarkSafeApi
  \/ make_safe_move
  \/ make_random_move
  \/ AskSafes
  \/ AskMines

ApiSpec == ApiInit /\ [][ApiNext]_vars

SentenceNext == AskSafes \/ AskMines

SentenceSpec == SentenceInit /\ [][SentenceNext]_vars

GridNext == ObserveGrid \/ LoopPass

GridSpec == GridInit /\ [][GridNext]_vars

\* ---- properties ----

\* a sentence whose count no set of mines can satisfy
InvalidCount(s) == s.count < 0 \/ s.count > Cardinality(s.cells)

\* the cells of the board that are neither played nor known mines
Candidates == BoardCells(height, width) \ (moves_made \cup mines)

\* C1: under a truthful game, every cell in mines is a mine of the game, no
\* cell in safes is one, and make_safe_move never returns a mine.
C1_Soundness ==
  /\ mines \subseteq game_mines
  /\ safes \cap game_mines = {}
  /\ (last = "make_safe_move" /\ result # None) => result \notin game_mines

\* a safe move was returned after the engine had deduced a mine
C1_Witness ==
  /\ last = "make_safe_move"
  /\ result # None
  /\ mines # {}
  /\ nobs > 1

\* C2: safes and mines are disjoint in every state, whatever counts are
\* passed for in-bounds cells.
C2_Disjoint == safes \cap mines = {}

\* C3: when add_knowledge returns, no sentence left in knowledge has
\* count = 0 or count = |cells|.
C3_TrivialFixedPoint ==
  pc = "idle" =>
    \A i \in 1..Len(knowledge) :
      knowledge[i].cells # {} =>
        /\ knowledge[i].count # 0
        /\ knowledge[i].count # Cardinality(knowledge[i].cells)

\* C4: when add_knowledge returns, for every two sentences A, B with A.cells
\* a proper subset of B.cells, knowledge holds a sentence over
\* B.cells - A.cells or all those cells are in safes or mines.
C4_SubsetClosure ==
  pc = "idle" =>
    \A i, j \in 1..Len(knowledge) :
      (/\ knowledge[i].cells \subseteq knowledge[j].cells
       /\ knowledge[i].cells # knowledge[j].cells)
      => LET d == knowledge[j].cells \ knowledge[i].cells
         IN \/ \E k \in 1..Len(knowledge) : knowledge[k].cells = d
            \/ d \subseteq (safes \cup mines)

\* C5: the while loop cannot run forever: every pass that does not leave
\* the loop marks a new cell or, with the marks unchanged, leaves knowledge
\* longer; the marks stay within the board and knowledge, holding distinct
\* non-empty cell sets, stays shorter than 2^(height * width).
C5_Termination ==
  /\ [][(pc = "resolving" /\ pc' = "resolving") =>
         \/ Cardinality(safes' \cup mines') > Cardinality(safes \cup mines)
         \/ /\ Cardinality(safes' \cup mines') = Cardinality(safes \cup mines)
            /\ Len(knowledge') > Len(knowledge)]_vars
  /\ [](/\ (safes \cup mines) \subseteq BoardCells(height, width)
        /\ Len(knowledge) < 2 ^ (height * width)
        /\ pc \in {"idle", "resolving"})

\* a pass derived a sentence and the loop went round again
C5_Witness == pc = "resolving" /\ new_knowledge # <<>>

\* C6: a sentence whose count is negative or exceeds its cell set, ingested
\* (line 177) or derived (line 221), is never inserted: no call carries on
\* with such an ingested sentence and no pass appends such a derived one.
C6_ContradictionDetected ==
  /\ last = "add_knowledge" =>
       ~InvalidCount(Sentence(Neighbours(arg[1], height, width), arg[2], arg[1]))
  /\ \A i \in 1..Len(new_knowledge) : ~InvalidCount(new_knowledge[i])

\* C7: add_knowledge on a cell outside the board leaves moves_made, safes,
\* mines and knowledge as they were.
C7_OutOfBoundsRejected ==
  [][(nobs' = nobs + 1 /\ arg'[1] \notin BoardCells(height, width)) =>
       UNCHANGED <<moves_made, safes, mines, knowledge>>]_vars

\* C8: make_random_move returns only board cells that are neither played
\* nor known mines, can return each of them, and returns None exactly when
\* there is none.
C8_RandomMove ==
  /\ pc = "idle" =>
       RandomMoveReturns = IF Candidates = {} THEN {None} ELSE Candidates
  /\ last = "make_random_move" =>
       /\ result = None <=> Candidates = {}
       /\ result # None => result \in Candidates

\* C9: make_safe_move returns a cell of safes - moves_made whenever there is
\* one, can return each of them, and returns None exactly when there is none.
C9_SafeMove ==
  /\ pc = "idle" =>
       SafeMoveReturns = IF safes \ moves_made = {} THEN {None}
                         ELSE safes \ moves_made
  /\ last = "make_safe_move" =>
       /\ result = None <=> safes \ moves_made = {}
       /\ result # None => result \in safes /\ result \notin moves_made

\* make_safe_move returned (0, 0) while other safe cells had been played
C9_Witness ==
  /\ last = "make_safe_move"
  /\ result = <<0, 0>>
  /\ moves_made # {}
  /\ Cardinality(safes \ moves_made) > 1

\* C10: under a truthful game, after every add_knowledge every sentence in
\* knowledge has 0 <= count <= |cells|.
C10_CountBounds ==
  pc = "idle" => \A i \in 1..Len(knowledge) : ~InvalidCount(knowledge[i])

\* a call returned leaving an open sentence that marking or subset
\* difference has cut down to fewer cells than any observation ingests
C10_Witness ==
  /\ pc = "idle"
  /\ last = "add_knowledge"
  /\ height > 1 /\ width > 1
  /\ \E i \in 1..Len(knowledge) :
       /\ knowledge[i].count = 1
       /\ Cardinality(knowledge[i].cells) = 2

\* C11: when add_knowledge returns, whatever the counts, every sentence in
\* knowledge has a non-empty cell set and holds no cell of safes or mines.
C11_LiveSentences ==
  pc = "idle" =>
    \A i \in 1..Len(knowledge) :
      /\ knowledge[i].cells # {}
      /\ knowledge[i].cells \cap (safes \cup mines) = {}

\* a second call returned with a deduced safe cell not yet played and a
\* sentence still open
C11_Witness ==
  /\ pc = "idle"
  /\ nobs = 2
  /\ knowledge # <<>>
  /\ safes \ moves_made # {}

\* C12: when add_knowledge returns, no two sentences in knowledge are equal
\* (same cells and same count), and knowledge holds no more sentences than
\* the board has non-empty sets of cells (one count each at most).
C12_NoDuplicates ==
  pc = "idle" =>
    /\ \A i, j \in 1..Len(knowledge) :
         i # j => ~SentenceEq(knowledge[i], knowledge[j])
    /\ Len(knowledge) <= 2 ^ (height * width) - 1

\* the same cell was observed twice and one sentence is left
C12_Witness ==
  /\ pc = "idle"
  /\ nobs = 2
  /\ Cardinality(moves_made) = 1
  /\ Len(knowledge) = 1

\* C13: after add_knowledge(cell, 0) on a cell of the board, every
\* neighbour of cell is in safes, and every neighbour not yet played is
\* among the known safe moves safes - moves_made.
C13_ZeroCount ==
  (last = "add_knowledge" /\ arg[2] = 0) =>
    \A c \in Neighbours(arg[1], height, width) :
      /\ c \in safes
      /\ c \notin moves_made => c \in SafeMoves(safes, moves_made)

\* a zero count was observed next to a played cell, with other neighbours
\* not played
C13_Witness ==
  /\ pc = "idle"
  /\ last = "add_knowledge"
  /\ arg[2] = 0
  /\ Neighbours(arg[1], height, width) \cap moves_made # {}
  /\ Neighbours(arg[1], height, width) \ moves_made # {}

\* C14: a call of make_safe_move, make_random_move, Sentence.known_safes
\* or Sentence.known_mines leaves moves_made, safes, mines and every
\* sentence (cells and count) unchanged, so the same call made again
\* draws from the same set of moves and gets the same cells.
C14_QueriesPure ==
  [][last' \in {"make_safe_move", "make_random_move",
                "known_safes", "known_mines"} =>
       /\ UNCHANGED <<moves_made, safes, mines, knowledge>>
       /\ SafeMoveReturns' = SafeMoveReturns
       /\ RandomMoveReturns' = RandomMoveReturns
       /\ \A i \in 1..Len(knowledge) :
            /\ known_safes(knowledge'[i]) = known_safes(knowledge[i])
            /\ known_mines(knowledge'[i]) = known_mines(knowledge[i])]_vars

\* after a move was played, a sentence asked for its known safes
\* returned several cells
C14_Witness ==
  /\ last = "known_safes"
  /\ moves_made # {}
  /\ Cardinality(result) > 1

\* C15: across add_knowledge, mark_safe, mark_mine and the move queries,
\* moves_made, safes and mines only grow: no step removes a cell from any
\* of the three sets.
C15_Monotonic ==
  [][/\ moves_made \subseteq moves_made'
     /\ safes \subseteq safes'
     /\ mines \subseteq mines']_vars

\* a call of mark_safe came after moves, safes and mines were all filled
C15_Witness ==
  /\ last = "mark_safe"
  /\ moves_made # {}
  /\ mines # {}
  /\ Cardinality(safes) > 1

\* C16: in every state between calls, mark_safe(c) twice leaves the same
\* safes, mines and sentences (cells and counts) as mark_safe(c) once, and
\* the same for mark_mine(c): the second mark_mine(c) decrements no count.
\* A mark call that repeats the call just made changes nothing.
C16_MarkIdempotent ==
  /\ [](pc = "idle" =>
         \A c \in BoardCells(height, width) :
           LET m1 == AIMarkMine(knowledge, mines, c)
               m2 == AIMarkMine(m1.knowledge, m1.mines, c)
               s1 == AIMarkSafe(knowledge, safes, c)
               s2 == AIMarkSafe(s1.knowledge, s1.safes, c)
           IN m2 = m1 /\ s2 = s1)
  /\ [][(/\ last \in {"mark_mine", "mark_safe"}
         /\ last' = last
         /\ arg' = arg
         /\ nobs' = nobs + 1) =>
          UNCHANGED <<moves_made, safes, mines, knowledge>>]_vars

\* mark_mine has taken its cell out of a sentence and lowered the count
C16_Witness ==
  /\ pc = "idle"
  /\ last = "mark_mine"
  /\ \E i \in 1..Len(knowledge) :
       /\ arg[1] \in Neighbours(knowledge[i].mc, height, width)
       /\ arg[1] \notin knowledge[i].cells
       /\ arg[1] \notin safes
       /\ knowledge[i].count < 0

\* C18: mark_mine(c) adds c to mines and, in every sentence containing c,
\* removes c and lowers count by exactly 1; mark_safe(c) adds c to safes
\* and removes c from every sentence containing it, count unchanged;
\* sentences without c, moves_made and the other set stay as they were.
C18_MarkCascade ==
  [][/\ (last' = "mark_mine" /\ nobs' = nobs + 1) =>
          /\ mines' = mines \cup {arg'[1]}
          /\ UNCHANGED <<safes, moves_made>>
          /\ Len(knowledge') = Len(knowledge)
          /\ \A i \in 1..Len(knowledge) :
               IF arg'[1] \in knowledge[i].cells
               THEN /\ knowledge'[i].cells = knowledge[i].cells \ {arg'[1]}
                    /\ knowledge'[i].count = knowledge[i].count - 1
               ELSE knowledge'[i] = knowledge[i]
     /\ (last' = "mark_safe" /\ nobs' = nobs + 1) =>
          /\ safes' = safes \cup {arg'[1]}
          /\ UNCHANGED <<mines, moves_made>>
          /\ Len(knowledge') = Len(knowledge)
          /\ \A i \in 1..Len(knowledge) :
               IF arg'[1] \in knowledge[i].cells
               THEN /\ knowledge'[i].cells = knowledge[i].cells \ {arg'[1]}
                    /\ knowledge'[i].count = knowledge[i].count
               ELSE knowledge'[i] = knowledge[i]]_vars

\* mark_safe has taken its cell out of a sentence whose count stayed 1,
\* and left the other cells of the sentence
C18_Witness ==
  /\ pc = "idle"
  /\ last = "mark_safe"
  /\ \E i \in 1..Len(knowledge) :
       /\ arg[1] \in Neighbours(knowledge[i].mc, height, width)
       /\ arg[1] \notin knowledge[i].cells
       /\ arg[1] \notin mines
       /\ knowledge[i].cells # {}
       /\ knowledge[i].count = 1

\* C17: for every sentence with non-empty cells, known_safes returns the
\* cells if count = 0 and the empty set otherwise, known_mines returns the
\* cells if count = |cells| and the empty set otherwise, and a sentence
\* with 0 < count < |cells| gets the empty set from both.
C17_TrivialResolution ==
  (last \in {"known_safes", "known_mines"} /\ knowledge[arg[1]].cells # {}) =>
    LET s == knowledge[arg[1]]
    IN /\ last = "known_safes" =>
            result = IF s.count = 0 THEN s.cells ELSE {}
       /\ last = "known_mines" =>
            result = IF s.count = Cardinality(s.cells) THEN s.cells ELSE {}
       /\ (0 < s.count /\ s.count < Cardinality(s.cells)) => result = {}

\* known_mines returned all the cells of a sentence of several cells
C17_Witness ==
  /\ last = "known_mines"
  /\ Cardinality(knowledge[arg[1]].cells) > 1
  /\ result = knowledge[arg[1]].cells

\* C19: within one pass of the subset loop a sentence is derived only if
\* its cells are non-empty and are the cells of no sentence of knowledge
\* and of no sentence already pending in the pass, so the pending list
\* new_knowledge never holds two sentences with the same cells.
C19_NoPendingDuplicate ==
  \A i, j \in 1..Len(new_knowledge) :
    i # j => new_knowledge[i].cells # new_knowledge[j].cells

====
